---- MODULE Spec2Model ----
(***************************************************************************)
(* A model of the DC2 object catalog reader (GCRCatalogs/dc2_object.py)    *)
(* and of the e-image focal-plane tree (GCRCatalogs/eimage.py).            *)
(*                                                                         *)
(* Python objects are records; a Python value that a dictionary key may    *)
(* hold carries what Python's key comparison looks at: its type, its       *)
(* number or characters, and (for a NaN, which is unequal to itself) the   *)
(* identity of the float object.                                           *)
(***************************************************************************)
EXTENDS Integers, Sequences, FiniteSets, TLC

VARIABLES
    disk,          \* base_dir: file index -> [exists, readable, groups]
    handles,       \* every pd.HDFStore the catalog opened: Seq of [path, is_open]
    file_handles,  \* DC2ObjectCatalog._file_handles: path -> handle id, 0 = no entry
    cat_schema,    \* DC2ObjectCatalog._schema
    use_cache,     \* DC2ObjectCatalog.use_cache
    datasets,      \* DC2ObjectCatalog._datasets: Seq of ObjectTableWrapper
    ctor,          \* where DC2ObjectCatalog._subclass_init stands
    iter,          \* the generator made by _iter_native_dataset
    ret,           \* what the last operation returned or raised
    tree,          \* eimage: the Raft/FocalPlane objects
    reader         \* eimage: the EImageReader and the directory tree it scans

vars == <<disk, handles, file_handles, cat_schema, use_cache, datasets, ctor, iter,
          ret, tree, reader>>

-----------------------------------------------------------------------------
(* Bounds of the model.                                                    *)

MaxRows == 2
MaxHandles == 3
MaxRafts == 1
MaxPlanes == 1
MaxFiles == 3

-----------------------------------------------------------------------------
(* Python values.                                                          *)

PyNaN(o) == [ty |-> "float", nan |-> TRUE, obj |-> o, n |-> 0, s |-> <<>>]
PyInt(k) == [ty |-> "int", nan |-> FALSE, obj |-> 0, n |-> k, s |-> <<>>]
PyBool(b) == [ty |-> "bool", nan |-> FALSE, obj |-> 0, n |-> IF b THEN 1 ELSE 0, s |-> <<>>]
PyStr(t) == [ty |-> "str", nan |-> FALSE, obj |-> 0, n |-> 0, s |-> t]

\* numpy's module-level float object np.nan
np_nan == PyNaN(0)
\* the float object a YAML loader builds for a `.nan` scalar: a NaN, but not np.nan
yaml_nan == PyNaN(1)

\* a == b as a dict compares two keys: the same object, or equal by value.
\* A NaN is unequal to every float, itself included, so only identity matches.
PyKeyEq(a, b) ==
    IF a.nan \/ b.nan THEN a.nan /\ b.nan /\ a.obj = b.obj
    ELSE IF a.ty = "str" \/ b.ty = "str" THEN a.ty = b.ty /\ a.s = b.s
    ELSE a.n = b.n

\* np.dtype(dtype).str
np_dtype(dtype) ==
    CASE dtype = "float64" -> "<f8"
      [] dtype \in {"int64", "int"} -> "<i8"
      [] dtype = "bool" -> "|b1"
      [] dtype = "str" -> "<U"

\* one element of np.asarray(np.repeat(value, n), dtype=dt)
Elt(isnan, k, t) == [nan |-> isnan, n |-> k, s |-> t]

np_cast(dt, value) ==
    CASE dt = "<f8" /\ value.ty # "str" ->
            IF value.nan THEN Elt(TRUE, 0, <<>>) ELSE Elt(FALSE, value.n, <<>>)
      [] dt = "<i8" /\ value.ty # "str" /\ ~value.nan -> Elt(FALSE, value.n, <<>>)
      [] dt = "|b1" /\ value.ty # "str" ->
            Elt(FALSE, IF value.nan \/ value.n # 0 THEN 1 ELSE 0, <<>>)
      [] dt = "<U" /\ value.ty = "str" -> Elt(FALSE, 0, value.s)

np_repeat(value, n) == [i \in 1..n |-> value]

\* an array object: its identity, dtype.str, elements and its writeable flag
NoArr == [id |-> <<"", PyInt(0), 0>>, dt |-> "", data |-> <<>>, writable |-> FALSE]

\* a local variable: v is computed once and F applied to its value
Bind(v, F(_)) == CHOOSE r \in {F(x) : x \in {v}} : TRUE

-----------------------------------------------------------------------------
(* Storage keys.  A key is a sequence of characters; a word of letters is  *)
(* kept as one token ("object", "coadd", ...), since the code never looks  *)
(* inside one.                                                             *)

Digits == {"0", "1", "2", "3", "4", "5", "6", "7", "8", "9"}

DigitVal(c) ==
    CASE c = "0" -> 0 [] c = "1" -> 1 [] c = "2" -> 2 [] c = "3" -> 3 [] c = "4" -> 4
      [] c = "5" -> 5 [] c = "6" -> 6 [] c = "7" -> 7 [] c = "8" -> 8 [] c = "9" -> 9

IsDigits(t) == Len(t) > 0 /\ \A i \in 1..Len(t) : t[i] \in Digits

\* str.split(sep)
RECURSIVE str_split(_, _)
str_split(t, sep) ==
    IF \A i \in 1..Len(t) : t[i] # sep THEN <<t>>
    ELSE LET k == CHOOSE i \in 1..Len(t) : t[i] = sep /\ \A j \in 1..(i - 1) : t[j] # sep
         IN <<SubSeq(t, 1, k - 1)>> \o str_split(SubSeq(t, k + 1, Len(t)), sep)

\* int(t) of a string of decimal digits
RECURSIVE py_int(_)
py_int(t) ==
    IF Len(t) = 0 THEN 0
    ELSE 10 * py_int(SubSeq(t, 1, Len(t) - 1)) + DigitVal(t[Len(t)])

\* sep.join(t): the characters of t with sep between them
RECURSIVE str_join(_, _)
str_join(sep, t) ==
    IF Len(t) <= 1 THEN t
    ELSE <<t[1], sep>> \o str_join(sep, Tail(t))

\* str.lstrip(c)
RECURSIVE str_lstrip(_, _)
str_lstrip(t, c) ==
    IF Len(t) > 0 /\ t[1] = c THEN str_lstrip(Tail(t), c) ELSE t

\* re.match(GROUP_PATTERN, t): (?:coadd|object)_\d+_\d\d$
GROUP_PATTERN(t) ==
    /\ Len(t) >= 6
    /\ t[1] \in {"coadd", "object"}
    /\ t[2] = "_"
    /\ IsDigits(SubSeq(t, 3, Len(t) - 3))
    /\ t[Len(t) - 2] = "_"
    /\ IsDigits(SubSeq(t, Len(t) - 1, Len(t)))

-----------------------------------------------------------------------------
(* What an operation returns or raises.                                    *)

Return == [ok |-> TRUE, err |-> "", arr |-> NoArr, n |-> 0, b |-> FALSE, cols |-> {}]
Raise(e) == [Return EXCEPT !.ok = FALSE, !.err = e]

-----------------------------------------------------------------------------
(* TableWrapper and ObjectTableWrapper.                                    *)

UnsetColumns == [set |-> FALSE, v |-> {}]
UnsetLen == [set |-> FALSE, v |-> 0]
UnsetCache == [set |-> FALSE, v |-> <<>>]

\* the pandas storer of the group a wrapper was built on
storer(self) == disk[self.file].groups[self.group]

\* the file handle (one of the handle objects hs) is open: what every read of
\* the storer needs
storer_is_open(self, hs) == hs[self.fh].is_open

\* a value stored in the file, row i of column c
StoredVal(c, i) == Elt(FALSE, i, <<>>)

\* storer.read(): the whole table
storer_read(self) ==
    [c \in storer(self).cols |-> [i \in 1..storer(self).nrows |-> StoredVal(c, i)]]

NoSchemaEntry == [has_dtype |-> FALSE, dtype |-> "", has_default |-> FALSE, default |-> np_nan]
SchemaEntry(dtype, default) ==
    [has_dtype |-> TRUE, dtype |-> dtype, has_default |-> TRUE, default |-> default]

NoWrapper ==
    [fh |-> 0, file |-> 0, group |-> 0, key |-> <<>>, is_table |-> FALSE, schema |-> <<>>,
     columns |-> UnsetColumns, len |-> UnsetLen, cache |-> UnsetCache,
     constant_arrays |-> {}, tract |-> 0, patch |-> <<>>]

\* TableWrapper.__init__; schema is [is_none, d]
TableWrapper_init(self, hs, fh, f, g, key, schema) ==
    IF ~hs[fh].is_open THEN [obj |-> NoWrapper, res |-> Raise("ValueError")]
    ELSE IF disk[f].groups[g].format \notin {"table", "fixed"}
    THEN [obj |-> NoWrapper, res |-> Raise("ValueError")]
    ELSE [obj |-> [self EXCEPT !.fh = fh, !.file = f, !.group = g, !.key = key,
                               !.is_table = (disk[f].groups[g].format = "table"),
                               !.schema = IF schema.is_none THEN <<>> ELSE schema.d,
                               !.columns = UnsetColumns, !.len = UnsetLen,
                               !.cache = UnsetCache, !.constant_arrays = {}],
          res |-> Return]

\* ObjectTableWrapper.__init__
ObjectTableWrapper_init(hs, fh, f, g, key, schema) ==
    LET key_items == str_split(key, "_") IN
    IF Len(key_items) < 2 THEN [obj |-> NoWrapper, res |-> Raise("IndexError")]
    ELSE IF ~IsDigits(key_items[2]) THEN [obj |-> NoWrapper, res |-> Raise("ValueError")]
    ELSE IF Len(key_items) < 3 THEN [obj |-> NoWrapper, res |-> Raise("IndexError")]
    ELSE LET tract == py_int(key_items[2])
             patch == str_join(",", key_items[3])
             base == TableWrapper_init([NoWrapper EXCEPT !.tract = tract, !.patch = patch],
                                       hs, fh, f, g, key, schema)
         IN IF ~base.res.ok THEN base
            ELSE [obj |-> [base.obj EXCEPT !.schema =
                      [c \in DOMAIN base.obj.schema \cup {"tract", "patch"} |->
                          IF c = "tract" THEN SchemaEntry("int", PyInt(tract))
                          ELSE IF c = "patch" THEN SchemaEntry("str", PyStr(patch))
                          ELSE base.obj.schema[c]]],
                  res |-> Return]

\* ObjectTableWrapper.tract_and_patch
tract_and_patch(self) == [tract |-> self.tract, patch |-> self.patch]

\* TableWrapper.columns
TW_columns(self, hs) ==
    IF self.columns.set THEN [obj |-> self, res |-> [Return EXCEPT !.cols = self.columns.v]]
    ELSE IF ~storer_is_open(self, hs) THEN [obj |-> self, res |-> Raise("ClosedFileError")]
    ELSE [obj |-> [self EXCEPT !.columns = [set |-> TRUE, v |-> storer(self).cols]],
          res |-> [Return EXCEPT !.cols = storer(self).cols]]

\* TableWrapper.__len__
TW_len(self, hs) ==
    IF self.len.set THEN [obj |-> self, res |-> [Return EXCEPT !.n = self.len.v]]
    ELSE IF ~storer_is_open(self, hs) THEN [obj |-> self, res |-> Raise("ClosedFileError")]
    ELSE [obj |-> [self EXCEPT !.len = [set |-> TRUE, v |-> storer(self).nrows]],
          res |-> [Return EXCEPT !.n = storer(self).nrows]]

\* TableWrapper.__contains__
TW_contains(self, hs, item) ==
    LET c == TW_columns(self, hs) IN
    IF ~c.res.ok THEN c
    ELSE [obj |-> c.obj, res |-> [Return EXCEPT !.b = (item \in c.res.cols)]]

\* the identity of a new array object: the memo key it is made for and a serial
\* number no array of that key still referenced (in `live`) carries
NewArrayId(dt, value, live) ==
    <<dt, value,
      CHOOSE k \in 1..(Cardinality(live) + 1) :
          /\ <<dt, value, k>> \notin live
          /\ \A j \in 1..(k - 1) : <<dt, value, j>> \in live>>

\* a memo that looks at the dtype alone
MemoHit_by_dtype(self, dt, value) == {e \in self.constant_arrays : e.dt = dt}

\* the dict lookup `key in self._constant_arrays`
MemoHit(self, dt, value) ==
    {e \in self.constant_arrays : e.dt = dt /\ PyKeyEq(e.value, value)}

\* TableWrapper._generate_constant_array
generate_constant_array(self, hs, dtype, value, live) ==
    LET dt == np_dtype(dtype)
        hit == MemoHit(self, dt, value)
    IN IF hit # {}
       THEN [obj |-> self, res |-> [Return EXCEPT !.arr = (CHOOSE e \in hit : TRUE).arr]]
       ELSE LET n == TW_len(self, hs) IN
            IF ~n.res.ok THEN n
            ELSE LET arr == [id |-> NewArrayId(dt, value, live), dt |-> dt,
                             data |-> np_repeat(np_cast(dt, value), n.res.n),
                             writable |-> FALSE]
                 IN [obj |-> [n.obj EXCEPT !.constant_arrays =
                                  @ \cup {[dt |-> dt, value |-> value, arr |-> arr]}],
                     res |-> [Return EXCEPT !.arr = arr]]

\* TableWrapper._get_constant_array
get_constant_array(self, hs, key, live) ==
    LET schema_this == IF key \in DOMAIN self.schema THEN self.schema[key] ELSE NoSchemaEntry
    IN generate_constant_array(
           self, hs,
           IF schema_this.has_dtype THEN schema_this.dtype ELSE "float64",
           IF schema_this.has_default THEN schema_this.default ELSE np_nan,
           live)

\* TableWrapper.__getitem__ (also bound as `get`)
TW_getitem(self, hs, key, live) ==
    IF ~self.cache.set /\ ~storer_is_open(self, hs)
    THEN [obj |-> self, res |-> Raise("ClosedFileError")]
    ELSE LET self1 == IF self.cache.set THEN self
                      ELSE [self EXCEPT !.cache = [set |-> TRUE, v |-> storer_read(self)]]
         IN IF key \in DOMAIN self1.cache.v
            THEN [obj |-> self1,
                  res |-> [Return EXCEPT !.arr = [id |-> <<"stored", PyStr(<<key>>), 0>>, dt |-> "<f8",
                                                  data |-> self1.cache.v[key],
                                                  writable |-> TRUE]]]
            ELSE get_constant_array(self1, hs, key, live)

\* a clear_cache that forgets the schema with the caches
TW_clear_cache_and_schema(self) ==
    [self EXCEPT !.columns = UnsetColumns, !.len = UnsetLen, !.cache = UnsetCache,
                 !.constant_arrays = {}, !.schema = <<>>]

\* a clear_cache that sets the length to 0 where the code sets it to None
TW_clear_cache_zero_len(self) ==
    [self EXCEPT !.columns = UnsetColumns, !.len = [set |-> TRUE, v |-> 0],
                 !.cache = UnsetCache, !.constant_arrays = {}]

\* TableWrapper.clear_cache
TW_clear_cache(self) ==
    [self EXCEPT !.columns = UnsetColumns, !.len = UnsetLen, !.cache = UnsetCache,
                 !.constant_arrays = {}]

-----------------------------------------------------------------------------
(* The directory base_dir.  A file is known by its index; FileName gives   *)
(* its name, cut into the parts FILE_PATTERN looks at.                     *)

FileName(f) ==
    CASE f = 1 -> [stem |-> "object", tract |-> <<"2">>, ext |-> ".hdf5"]
      [] f = 2 -> [stem |-> "merged", tract |-> <<"1">>, ext |-> ".hdf5"]
      [] f = 3 -> [stem |-> "notes", tract |-> <<"2">>, ext |-> ".hdf5"]
      [] f = 4 -> [stem |-> "object", tract |-> <<"1", "0">>, ext |-> ".hdf5"]

Files == {1, 2, 3, 4}

\* the place of a file's name in lexicographic order: merged_tract_1.hdf5 <
\* notes_tract_2.hdf5 < object_tract_10.hdf5 < object_tract_2.hdf5
NameRank(f) == CASE f = 2 -> 1 [] f = 3 -> 2 [] f = 4 -> 3 [] f = 1 -> 4

\* re.match(FILE_PATTERN, fname): (?:merged|object)_tract_\d+\.hdf5$
FILE_PATTERN(name) ==
    name.stem \in {"merged", "object"} /\ IsDigits(name.tract) /\ name.ext = ".hdf5"

\* a sorted() that keeps the order the names were listed in
unsorted(S) ==
    LET RECURSIVE by_index(_)
        by_index(T) == IF T = {} THEN <<>>
                       ELSE LET m == CHOOSE x \in T : \A y \in T : x <= y
                            IN <<m>> \o by_index(T \ {m})
    IN by_index(S)

\* sorted(names)
RECURSIVE sorted(_)
sorted(S) ==
    IF S = {} THEN <<>>
    ELSE LET m == CHOOSE x \in S : \A y \in S : NameRank(x) <= NameRank(y)
         IN <<m>> \o sorted(S \ {m})

\* os.listdir(base_dir)
os_listdir == {f \in Files : disk[f].exists}

-----------------------------------------------------------------------------
(* DC2ObjectCatalog: file handles.                                         *)

\* DC2ObjectCatalog._open_hdf5, on the handle objects hs and the table fhs
open_hdf5(hs, fhs, file_path) ==
    IF fhs[file_path] = 0 \/ ~hs[fhs[file_path]].is_open
    THEN IF ~(disk[file_path].exists /\ disk[file_path].readable)
         THEN [handles |-> hs, file_handles |-> fhs, res |-> Raise("IOError")]
         ELSE [handles |-> Append(hs, [path |-> file_path, is_open |-> TRUE]),
               file_handles |-> [fhs EXCEPT ![file_path] = Len(hs) + 1],
               res |-> [Return EXCEPT !.n = Len(hs) + 1]]
    ELSE [handles |-> hs, file_handles |-> fhs, res |-> [Return EXCEPT !.n = fhs[file_path]]]

\* a close_all that forgets the handles without closing them
close_all_forget_only(hs, fhs) == hs

\* DC2ObjectCatalog.close_all_file_handles: the handle objects afterwards
close_all_file_handles(hs, fhs) ==
    [h \in 1..Len(hs) |->
        IF \E f \in Files : fhs[f] = h THEN [hs[h] EXCEPT !.is_open = FALSE] ELSE hs[h]]

NoFileHandles == [f \in Files |-> 0]

-----------------------------------------------------------------------------
(* DC2ObjectCatalog: discovery.                                            *)

\* the `for key in fh` loop of _generate_datasets, from group g of file f on
RECURSIVE scan_groups(_, _, _, _, _)
scan_groups(hs, fh, f, g, acc) ==
    IF g > Len(disk[f].groups) THEN [datasets |-> acc, res |-> Return]
    ELSE LET key == disk[f].groups[g].key IN
         IF GROUP_PATTERN(str_lstrip(key, "/"))
         THEN Bind(ObjectTableWrapper_init(hs, fh, f, g, key, cat_schema),
                   LAMBDA w :
                       IF ~w.res.ok THEN [datasets |-> acc, res |-> w.res]
                       ELSE scan_groups(hs, fh, f, g + 1, Append(acc, w.obj)))
         ELSE scan_groups(hs, fh, f, g + 1, acc)

\* the `for fname in sorted(...)` loop of _generate_datasets, over the names left
RECURSIVE scan_files(_, _, _, _)
scan_files(names, hs, fhs, acc) ==
    IF names = <<>> THEN [handles |-> hs, file_handles |-> fhs, datasets |-> acc, res |-> Return]
    ELSE LET f == Head(names) IN
         IF ~FILE_PATTERN(FileName(f)) THEN scan_files(Tail(names), hs, fhs, acc)
         ELSE Bind(open_hdf5(hs, fhs, f),
                   LAMBDA o :
                       IF ~o.res.ok THEN scan_files(Tail(names), hs, fhs, acc)
                       ELSE Bind(scan_groups(o.handles, o.res.n, f, 1, acc),
                                 LAMBDA gs :
                                     IF ~gs.res.ok
                                     THEN [handles |-> o.handles,
                                           file_handles |-> o.file_handles,
                                           datasets |-> gs.datasets, res |-> gs.res]
                                     ELSE scan_files(Tail(names), o.handles,
                                                     o.file_handles, gs.datasets)))

\* DC2ObjectCatalog._generate_datasets
generate_datasets(hs, fhs) == scan_files(sorted(os_listdir), hs, fhs, <<>>)

\* DC2ObjectCatalog._generate_columns: reads .columns of every dataset
generate_columns(ds, hs) == [k \in 1..Len(ds) |-> TW_columns(ds[k], hs).obj]

\* truth value of self._schema: None and {} are false
schema_is_set == ~cat_schema.is_none /\ DOMAIN cat_schema.d # {}

-----------------------------------------------------------------------------
(* The state and its inputs.                                               *)

\* the last call: its name, the partition or path it was made on, its column
\* argument, what it returned, and whether the accessor's file handle was
\* already closed when it was made
Call(op, arg, col, res, stale) ==
    [op |-> op, arg |-> arg, col |-> col, res |-> res, stale |-> stale]
NoCall == Call("", 0, "", Return, FALSE)

\* the generator object: not made, made and not started, suspended at the yield
\* of dataset i, run to its end, or closed by its consumer; out lists what it
\* yielded
NoIter == [pc |-> "none", i |-> 0, filt |-> [is_none |-> TRUE, accept |-> {}], out |-> <<>>]

NoTree == [rafts |-> <<>>, planes |-> <<>>]

\* no EImageReader built, and nothing under its root_dir
NoReader ==
    [state |-> "none", root |-> <<>>, default_rebinning |-> 0, focal_planes |-> <<>>,
     valid_keys |-> {}]

\* column names asked of an accessor
ReqCols == {"id", "flux", "fluxErr", "parent", "flag", "tract", "patch", "w"}

\* a schema.yaml as the test data's: float columns default to NaN, integers to
\* -1, flags to false
SchemaYaml ==
    [is_none |-> FALSE,
     d |-> [c \in {"flux", "fluxErr", "parent", "flag"} |->
               CASE c \in {"flux", "fluxErr"} -> SchemaEntry("float64", yaml_nan)
                 [] c = "parent" -> SchemaEntry("int64", PyInt(-1))
                 [] c = "flag" -> SchemaEntry("bool", PyBool(FALSE))]]
SchemaNone == [is_none |-> TRUE, d |-> <<>>]
Schemas == {SchemaNone, SchemaYaml}

Key_object_48_01 == <<"/", "object", "_", "4", "8", "_", "0", "1">>
Key_coadd_07_12 == <<"/", "coadd", "_", "0", "7", "_", "1", "2">>
Key_object_2_00 == <<"/", "object", "_", "2", "_", "0", "0">>
Key_coadd_1_01 == <<"/", "coadd", "_", "1", "_", "0", "1">>
Key_object_10_00 == <<"/", "object", "_", "1", "0", "_", "0", "0">>
Key_meta == <<"/", "meta">>

Group(key, format, cols, nrows) ==
    [key |-> key, format |-> format, cols |-> cols, nrows |-> nrows]

NoFile == [exists |-> FALSE, readable |-> FALSE, groups |-> <<>>]
File(readable, groups) == [exists |-> TRUE, readable |-> readable, groups |-> groups]

\* ids of the arrays still referenced: the accessor's memo and the caller's last result
LiveIds(self) == {e.arr.id : e \in self.constant_arrays} \cup {ret.res.arr.id}

HandleClosed(p) == ~handles[datasets[p].fh].is_open

-----------------------------------------------------------------------------
(* Operations on one partition accessor.                                   *)

\* ObjectTableWrapper(fh, key, schema) on group 1 of file 1, fh the handle the
\* catalog opened first
NewWrapper ==
    /\ ctor = "none" /\ datasets = <<>> /\ Len(handles) >= 1
    /\ LET w == ObjectTableWrapper_init(handles, 1, 1, 1, disk[1].groups[1].key, cat_schema)
       IN /\ datasets' = IF w.res.ok THEN <<w.obj>> ELSE datasets
          /\ ctor' = IF w.res.ok THEN "wrapped" ELSE "failed"
          /\ ret' = Call("new", 1, "", w.res, ~handles[1].is_open)
    /\ UNCHANGED <<disk, handles, file_handles, cat_schema, use_cache, iter, tree, reader>>

\* dataset.get(col)
Get(p, col) ==
    /\ ctor = "wrapped" /\ p \in 1..Len(datasets)
    /\ LET r == TW_getitem(datasets[p], handles, col, LiveIds(datasets[p]))
       IN /\ datasets' = [datasets EXCEPT ![p] = r.obj]
          /\ ret' = Call("get", p, col, r.res, HandleClosed(p))
    /\ UNCHANGED <<disk, handles, file_handles, cat_schema, use_cache, ctor, iter, tree, reader>>

\* len(dataset)
Length(p) ==
    /\ ctor = "wrapped" /\ p \in 1..Len(datasets)
    /\ LET r == TW_len(datasets[p], handles)
       IN /\ datasets' = [datasets EXCEPT ![p] = r.obj]
          /\ ret' = Call("len", p, "", r.res, HandleClosed(p))
    /\ UNCHANGED <<disk, handles, file_handles, cat_schema, use_cache, ctor, iter, tree, reader>>

\* dataset.columns
Columns(p) ==
    /\ ctor = "wrapped" /\ p \in 1..Len(datasets)
    /\ LET r == TW_columns(datasets[p], handles)
       IN /\ datasets' = [datasets EXCEPT ![p] = r.obj]
          /\ ret' = Call("columns", p, "", r.res, HandleClosed(p))
    /\ UNCHANGED <<disk, handles, file_handles, cat_schema, use_cache, ctor, iter, tree, reader>>

\* col in dataset
Contains(p, col) ==
    /\ ctor = "wrapped" /\ p \in 1..Len(datasets)
    /\ LET r == TW_contains(datasets[p], handles, col)
       IN /\ datasets' = [datasets EXCEPT ![p] = r.obj]
          /\ ret' = Call("contains", p, col, r.res, HandleClosed(p))
    /\ UNCHANGED <<disk, handles, file_handles, cat_schema, use_cache, ctor, iter, tree, reader>>

\* dataset.clear_cache()
ClearCache(p) ==
    /\ ctor = "wrapped" /\ p \in 1..Len(datasets)
    /\ datasets' = [datasets EXCEPT ![p] = TW_clear_cache(datasets[p])]
    /\ ret' = Call("clear_cache", p, "", Return, HandleClosed(p))
    /\ UNCHANGED <<disk, handles, file_handles, cat_schema, use_cache, ctor, iter, tree, reader>>

\* catalog.close_all_file_handles()
CloseAll ==
    /\ ctor \in {"none", "wrapped", "done"}
    /\ handles' = close_all_file_handles(handles, file_handles)
    /\ file_handles' = NoFileHandles
    /\ ret' = Call("close_all", 0, "", Return, FALSE)
    /\ UNCHANGED <<disk, cat_schema, use_cache, datasets, ctor, iter, tree, reader>>

\* one file holding one group, opened by the catalog
InitAccessor ==
    /\ \E nrows \in 0..MaxRows, cols \in {{"id"}, {"id", "tract"}},
          kf \in {<<Key_object_48_01, "table">>, <<Key_coadd_07_12, "fixed">>,
                  <<Key_object_48_01, "other">>} :
          disk = [f \in Files |->
                     IF f = 1 THEN File(TRUE, <<Group(kf[1], kf[2], cols, nrows)>>)
                     ELSE NoFile]
    /\ handles = <<[path |-> 1, is_open |-> TRUE]>>
    /\ file_handles = [NoFileHandles EXCEPT ![1] = 1]
    /\ cat_schema \in Schemas
    /\ use_cache = TRUE
    /\ datasets = <<>>
    /\ ctor = "none"
    /\ iter = NoIter
    /\ ret = NoCall
    /\ tree = NoTree
    /\ reader = NoReader

NextAccessor ==
    \/ NewWrapper
    \/ \E p \in 1..Len(datasets), col \in ReqCols : Get(p, col)
    \/ \E p \in 1..Len(datasets) : Length(p)
    \/ \E p \in 1..Len(datasets) : Columns(p)
    \/ \E p \in 1..Len(datasets), col \in ReqCols : Contains(p, col)
    \/ \E p \in 1..Len(datasets) : ClearCache(p)
    \/ CloseAll

SpecAccessor == InitAccessor /\ [][NextAccessor]_vars

-----------------------------------------------------------------------------
(* DC2ObjectCatalog: construction, file handles, iteration.                *)

\* a _subclass_init without the `if not self._datasets` check
subclass_init_unchecked ==
    Bind(generate_datasets(<<>>, NoFileHandles),
         LAMBDA g :
             IF ~g.res.ok THEN [g EXCEPT !.datasets = <<>>]
             ELSE [g EXCEPT !.datasets = IF schema_is_set THEN g.datasets
                                          ELSE generate_columns(g.datasets, g.handles)])

\* DC2ObjectCatalog._subclass_init, from self._file_handles = dict() on
subclass_init ==
    Bind(generate_datasets(<<>>, NoFileHandles),
         LAMBDA g :
             IF ~g.res.ok THEN [g EXCEPT !.datasets = <<>>]
             ELSE IF g.datasets = <<>> THEN [g EXCEPT !.res = Raise("RuntimeError")]
             ELSE [g EXCEPT !.datasets = IF schema_is_set THEN g.datasets
                                          ELSE generate_columns(g.datasets, g.handles)])

\* DC2ObjectCatalog(base_dir=...)
Construct ==
    /\ ctor = "new"
    /\ LET c == subclass_init
       IN /\ handles' = c.handles
          /\ file_handles' = c.file_handles
          /\ datasets' = c.datasets
          /\ ctor' = IF c.res.ok THEN "done" ELSE "failed"
          /\ ret' = Call("init", 0, "", c.res, FALSE)
    /\ UNCHANGED <<disk, cat_schema, use_cache, iter, tree, reader>>

\* DC2ObjectCatalog.__del__, of a catalog or of what a failed construction left
Del ==
    /\ ctor \in {"done", "failed"}
    /\ handles' = close_all_file_handles(handles, file_handles)
    /\ file_handles' = NoFileHandles
    /\ ctor' = IF ctor = "done" THEN "deleted" ELSE "discarded"
    /\ ret' = Call("del", 0, "", Return, FALSE)
    /\ UNCHANGED <<disk, cat_schema, use_cache, datasets, iter, tree, reader>>

\* catalog._open_hdf5(file_path)
OpenHdf5(f) ==
    /\ ctor = "done"
    /\ LET o == open_hdf5(handles, file_handles, f)
       IN /\ Len(o.handles) <= MaxHandles
          /\ handles' = o.handles
          /\ file_handles' = o.file_handles
          /\ ret' = Call("open", f, "", o.res, FALSE)
    /\ UNCHANGED <<disk, cat_schema, use_cache, datasets, ctor, iter, tree, reader>>

\* fh.close() by a caller who got fh from _open_hdf5
HandleClose(h) ==
    /\ ctor = "done" /\ h \in 1..Len(handles) /\ handles[h].is_open
    /\ handles' = [handles EXCEPT ![h].is_open = FALSE]
    /\ ret' = Call("close", h, "", Return, FALSE)
    /\ UNCHANGED <<disk, file_handles, cat_schema, use_cache, datasets, ctor, iter, tree, reader>>

\* DC2ObjectCatalog.clear_cache
CatClearCache ==
    /\ ctor = "done"
    /\ datasets' = [k \in 1..Len(datasets) |-> TW_clear_cache(datasets[k])]
    /\ ret' = Call("clear_cache", 0, "", Return, FALSE)
    /\ UNCHANGED <<disk, handles, file_handles, cat_schema, use_cache, ctor, iter, tree, reader>>

\* native_filters.check_scalar(dataset.tract_and_patch); a filter is known by
\* the identity dicts it accepts
check_scalar(filt, identity) == identity \in filt.accept

\* a scan that tests no filter
next_dataset_unfiltered(ds, i, filt) == IF i < Len(ds) THEN i + 1 ELSE 0

\* the scan of `for dataset in self._datasets` from after dataset i to the next
\* one that passes the test of line 513-514; 0 when the loop runs out
next_dataset(ds, i, filt) ==
    LET pass == {k \in (i + 1)..Len(ds) :
                    filt.is_none \/ check_scalar(filt, tract_and_patch(ds[k]))}
    IN IF pass = {} THEN 0 ELSE CHOOSE k \in pass : \A j \in pass : k <= j

\* a resumption that never clears
after_yield_keep(ds, i) == ds

\* lines 516-517, run when the generator is resumed after yielding dataset i
after_yield(ds, i) ==
    IF ~use_cache THEN [ds EXCEPT ![i] = TW_clear_cache(ds[i])] ELSE ds

\* it = catalog._iter_native_dataset(native_filters): makes the generator, runs nothing
IterStart(filt) ==
    /\ ctor = "done" /\ iter.pc \in {"none", "done", "closed"}
    /\ iter' = [pc |-> "start", i |-> 0, filt |-> filt, out |-> <<>>]
    /\ ret' = Call("iter", 0, "", Return, FALSE)
    /\ UNCHANGED <<disk, handles, file_handles, cat_schema, use_cache, datasets, ctor, tree, reader>>

\* next(it): from the start or from the last yield to the next yield or the end
IterNext ==
    /\ ctor = "done" /\ iter.pc \in {"start", "yielded"}
    /\ LET ds == IF iter.pc = "yielded" THEN after_yield(datasets, iter.i) ELSE datasets
           k == next_dataset(ds, iter.i, iter.filt)
       IN /\ datasets' = ds
          /\ iter' = IF k = 0 THEN [iter EXCEPT !.pc = "done", !.i = 0]
                     ELSE [iter EXCEPT !.pc = "yielded", !.i = k, !.out = Append(@, k)]
          /\ ret' = Call("next", k, "", IF k = 0 THEN Raise("StopIteration") ELSE Return, FALSE)
    /\ UNCHANGED <<disk, handles, file_handles, cat_schema, use_cache, ctor, tree, reader>>

\* the consumer calls the accessor it was handed last: getter(col)
IterGet(col) ==
    /\ ctor = "done" /\ iter.pc = "yielded"
    /\ LET r == TW_getitem(datasets[iter.i], handles, col, LiveIds(datasets[iter.i]))
       IN /\ datasets' = [datasets EXCEPT ![iter.i] = r.obj]
          /\ ret' = Call("get", iter.i, col, r.res, HandleClosed(iter.i))
    /\ UNCHANGED <<disk, handles, file_handles, cat_schema, use_cache, ctor, iter, tree, reader>>

\* the consumer stops: it.close(), or the generator is dropped; GeneratorExit is
\* raised at the yield and nothing after it runs
IterClose ==
    /\ ctor = "done" /\ iter.pc \in {"start", "yielded"}
    /\ iter' = [iter EXCEPT !.pc = "closed"]
    /\ ret' = Call("iter_close", 0, "", Return, FALSE)
    /\ UNCHANGED <<disk, handles, file_handles, cat_schema, use_cache, datasets, ctor, tree, reader>>

\* a group of one row and one stored column
SmallGroup(key) == Group(key, "table", {"id"}, 1)

\* what a file of base_dir may hold
FileContents(f) ==
    CASE f = 1 -> {<<SmallGroup(Key_object_2_00)>>,
                   <<SmallGroup(Key_meta), SmallGroup(Key_object_2_00)>>,
                   <<SmallGroup(Key_meta)>>}
      [] f = 2 -> {<<SmallGroup(Key_coadd_1_01), SmallGroup(Key_coadd_07_12)>>,
                   <<SmallGroup(Key_coadd_1_01),
                     Group(Key_coadd_07_12, "other", {"id"}, 1)>>}
      [] f = 3 -> {<<SmallGroup(Key_object_2_00)>>}
      [] f = 4 -> {<<>>, <<SmallGroup(Key_object_10_00)>>}

DiskFiles(f) ==
    {NoFile} \cup {File(r, g) : r \in BOOLEAN, g \in FileContents(f)}

InitDiscovery ==
    /\ disk \in [Files -> UNION {DiskFiles(f) : f \in Files}]
    /\ \A f \in Files : disk[f] \in DiskFiles(f)
    /\ handles = <<>>
    /\ file_handles = NoFileHandles
    /\ cat_schema = SchemaYaml
    /\ use_cache = TRUE
    /\ datasets = <<>>
    /\ ctor = "new"
    /\ iter = NoIter
    /\ ret = NoCall
    /\ tree = NoTree
    /\ reader = NoReader

NextDiscovery ==
    \/ Construct
    \/ Del
    \/ \E f \in Files : OpenHdf5(f)
    \/ CloseAll
    \/ \E h \in 1..Len(handles) : HandleClose(h)

SpecDiscovery == InitDiscovery /\ [][NextDiscovery]_vars

\* directories to iterate over: three partitions in two files, and two files
\* that both hold a group object_2_00
IterDisks ==
    {[f \in Files |->
         CASE f = 1 -> File(TRUE, <<SmallGroup(Key_meta), SmallGroup(Key_object_2_00)>>)
           [] f = 2 -> File(TRUE, <<SmallGroup(Key_coadd_1_01), SmallGroup(Key_coadd_07_12)>>)
           [] OTHER -> NoFile],
     [f \in Files |->
         CASE f = 1 -> File(TRUE, <<SmallGroup(Key_object_2_00)>>)
           [] f = 4 -> File(TRUE, <<SmallGroup(Key_object_2_00), SmallGroup(Key_object_10_00)>>)
           [] OTHER -> NoFile]}

Identity(tract, patch) == [tract |-> tract, patch |-> patch]

\* native filters: none, or one that accepts these identity dicts
Filters ==
    {[is_none |-> TRUE, accept |-> {}]} \cup
    {[is_none |-> FALSE, accept |-> a] :
        a \in {{}, {Identity(2, <<"0", ",", "0">>)},
               {Identity(1, <<"0", ",", "1">>), Identity(10, <<"0", ",", "0">>)}}}

IterCols == {"id", "flux"}

InitIter ==
    /\ disk \in IterDisks
    /\ handles = <<>>
    /\ file_handles = NoFileHandles
    /\ cat_schema \in Schemas
    /\ use_cache \in BOOLEAN
    /\ datasets = <<>>
    /\ ctor = "new"
    /\ iter = NoIter
    /\ ret = NoCall
    /\ tree = NoTree
    /\ reader = NoReader

NextIter ==
    \/ Construct
    \/ \E filt \in Filters : IterStart(filt)
    \/ IterNext
    \/ \E col \in IterCols : IterGet(col)
    \/ IterClose
    \/ CatClearCache

SpecIter == InitIter /\ [][NextIter]_vars

-----------------------------------------------------------------------------
(* eimage: Sensor, Raft, FocalPlane.  A dict is a function on the keys it  *)
(* holds; Raft and FocalPlane objects live in tree.rafts and tree.planes   *)
(* and are known by their place there.                                     *)

\* d[k] = v
DictSet(d, k, v) == [x \in DOMAIN d \cup {k} |-> IF x = k THEN v ELSE d[x]]

\* Sensor.__init__: float(default_rebinning or 1), None given as 0
Sensor_init(path, name, raft, visit, default_rebinning) ==
    [path |-> path, name |-> name, raft |-> raft, visit |-> visit,
     default_rebinning |-> IF default_rebinning = 0 THEN 1 ELSE default_rebinning]

\* Raft.__init__
Raft_init(name, visit) == [name |-> name, visit |-> visit, sensors |-> <<>>]

\* FocalPlane.__init__
FocalPlane_init(visit) == [visit |-> visit, rafts |-> <<>>]

\* an add_sensor that stores whatever it is given
Raft_add_sensor_unchecked(self, sensor) ==
    [self EXCEPT !.sensors = DictSet(@, sensor.name, sensor)]

\* Raft.add_sensor
Raft_add_sensor(self, sensor) ==
    IF /\ sensor.raft = self.name
       /\ sensor.visit = self.visit
       /\ sensor.name \notin DOMAIN self.sensors
    THEN [self EXCEPT !.sensors = DictSet(@, sensor.name, sensor)]
    ELSE self

\* FocalPlane.add_raft, raft the object tr.rafts[r]
FocalPlane_add_raft(tr, fp, r) ==
    IF /\ tr.rafts[r].visit = tr.planes[fp].visit
       /\ tr.rafts[r].name \notin DOMAIN tr.planes[fp].rafts
    THEN [tr EXCEPT !.planes[fp].rafts = DictSet(@, tr.rafts[r].name, r)]
    ELSE tr

\* FocalPlane.add_sensor
FocalPlane_add_sensor(tr, fp, sensor) ==
    Bind(IF sensor.raft \notin DOMAIN tr.planes[fp].rafts
         THEN FocalPlane_add_raft(
                  [tr EXCEPT !.rafts = Append(@, Raft_init(sensor.raft, sensor.visit))],
                  fp, Len(tr.rafts) + 1)
         ELSE tr,
         LAMBDA t1 :
             IF sensor.raft \notin DOMAIN t1.planes[fp].rafts
             THEN [tree |-> tr, res |-> Raise("KeyError")]
             ELSE [tree |-> [t1 EXCEPT !.rafts[t1.planes[fp].rafts[sensor.raft]] =
                                           Raft_add_sensor(@, sensor)],
                   res |-> Return])

Visits == {"1", "2"}
RaftNames == {"R01", "R10"}

\* the Sensor objects the files of two directories give: a/ and b/ hold the
\* same visit, raft and sensor once
Sensors ==
    {Sensor_init("a/", "S00", "R01", "1", 0), Sensor_init("b/", "S00", "R01", "1", 0),
     Sensor_init("a/", "S11", "R01", "1", 0), Sensor_init("a/", "S00", "R10", "1", 0),
     Sensor_init("a/", "S00", "R01", "2", 0)}

\* a call on the tree and the Sensor or Raft it was given
TreeCall(op, arg, given, res) == [Call(op, arg, "", res, FALSE) EXCEPT !.res.cols = {given}]

\* Raft(name, visit)
NewRaft(name, visit) ==
    /\ Len(tree.rafts) < MaxRafts
    /\ tree' = [tree EXCEPT !.rafts = Append(@, Raft_init(name, visit))]
    /\ ret' = Call("raft", Len(tree.rafts) + 1, "", Return, FALSE)
    /\ UNCHANGED <<disk, handles, file_handles, cat_schema, use_cache, datasets, ctor, iter, reader>>

\* FocalPlane(visit)
NewPlane(visit) ==
    /\ Len(tree.planes) < MaxPlanes
    /\ tree' = [tree EXCEPT !.planes = Append(@, FocalPlane_init(visit))]
    /\ ret' = Call("plane", Len(tree.planes) + 1, "", Return, FALSE)
    /\ UNCHANGED <<disk, handles, file_handles, cat_schema, use_cache, datasets, ctor, iter, reader>>

\* raft.add_sensor(sensor)
RaftAddSensor(r, sensor) ==
    /\ r \in 1..Len(tree.rafts)
    /\ tree' = [tree EXCEPT !.rafts[r] = Raft_add_sensor(@, sensor)]
    /\ ret' = TreeCall("raft.add_sensor", r, sensor, Return)
    /\ UNCHANGED <<disk, handles, file_handles, cat_schema, use_cache, datasets, ctor, iter, reader>>

\* focal_plane.add_raft(raft)
PlaneAddRaft(fp, r) ==
    /\ fp \in 1..Len(tree.planes) /\ r \in 1..Len(tree.rafts)
    /\ tree' = FocalPlane_add_raft(tree, fp, r)
    /\ ret' = TreeCall("plane.add_raft", fp, r, Return)
    /\ UNCHANGED <<disk, handles, file_handles, cat_schema, use_cache, datasets, ctor, iter, reader>>

\* focal_plane.add_sensor(sensor)
PlaneAddSensor(fp, sensor) ==
    /\ fp \in 1..Len(tree.planes)
    /\ LET a == FocalPlane_add_sensor(tree, fp, sensor)
       IN /\ Len(a.tree.rafts) <= MaxRafts
          /\ tree' = a.tree
          /\ ret' = TreeCall("plane.add_sensor", fp, sensor, a.res)
    /\ UNCHANGED <<disk, handles, file_handles, cat_schema, use_cache, datasets, ctor, iter, reader>>

InitTree ==
    /\ disk = [f \in Files |-> NoFile]
    /\ handles = <<>>
    /\ file_handles = NoFileHandles
    /\ cat_schema = SchemaNone
    /\ use_cache = TRUE
    /\ datasets = <<>>
    /\ ctor = "none"
    /\ iter = NoIter
    /\ ret = NoCall
    /\ tree = NoTree
    /\ reader = NoReader

NextTree ==
    \/ \E name \in RaftNames, visit \in Visits : NewRaft(name, visit)
    \/ \E visit \in Visits : NewPlane(visit)
    \/ \E r \in 1..Len(tree.rafts), sensor \in Sensors : RaftAddSensor(r, sensor)
    \/ \E fp \in 1..Len(tree.planes), r \in 1..Len(tree.rafts) : PlaneAddRaft(fp, r)
    \/ \E fp \in 1..Len(tree.planes), sensor \in Sensors : PlaneAddSensor(fp, sensor)

SpecTree == InitTree /\ [][NextTree]_vars

-----------------------------------------------------------------------------
(* eimage: EImageReader.  A file name is the parts _FILENAME_PATTERN looks  *)
(* at; a key is the sequence of the pieces '-'.join puts together, a name   *)
(* being one piece.                                                         *)

\* a file os.walk(root_dir) lists in directory dir
FileEntry(dir, visit, raft, sensor, ext) ==
    [dir |-> dir, prefix |-> "lsst_e_", visit |-> visit, raft |-> raft, sensor |-> sensor,
     ext |-> ext]

\* filename_re.match(filename)
FILENAME_PATTERN(name) == name.prefix = "lsst_e_" /\ name.ext = ".fits.gz"

\* the files root_dir may hold: a/ and b/ hold the same visit, raft and sensor,
\* and one file is not gzipped
RootFiles ==
    {FileEntry("a/", "1", "R01", "S00", ".fits.gz"),
     FileEntry("b/", "1", "R01", "S00", ".fits.gz"),
     FileEntry("a/", "1", "R01", "S11", ".fits.gz"),
     FileEntry("b/", "2", "R10", "S00", ".fits.gz"),
     FileEntry("a/", "1", "R10", "S00", ".fits")}

\* os.walk(root_dir): the files in some order, those of one directory together
Walks ==
    {w \in UNION {[1..n -> RootFiles] : n \in 0..MaxFiles} :
        /\ \A i, j \in 1..Len(w) : i # j => w[i] # w[j]
        /\ \A i, j, k \in 1..Len(w) : (i < j /\ j < k /\ w[i].dir = w[k].dir) => w[j].dir = w[i].dir}

\* dirpath_contain in dirpath, for the strings used here
str_contains(dirpath, sub) ==
    sub \in (CASE dirpath = "a/" -> {"", "a", "/", "a/"}
               [] dirpath = "b/" -> {"", "b", "/", "b/"}
               [] OTHER -> {""})

\* the `visits` argument after lines 89-95: None, or a set of strings
VisitsNone == [is_none |-> TRUE, v |-> {}]
VisitsSet(S) == [is_none |-> FALSE, v |-> S]

\* a dict lookup by a string that was cut out of a key
DictHas(d, k) == Len(k) = 1 /\ k[1] \in DOMAIN d
DictGet(d, k) == d[k[1]]

\* keys that leave out the visit and the visit-raft key
reader_keys_sensor_only(visit, raft, sensor) == {str_join("-", <<visit, raft, sensor>>)}

\* the keys of lines 125-127
reader_keys(visit, raft, sensor) ==
    {<<visit>>, str_join("-", <<visit, raft>>), str_join("-", <<visit, raft, sensor>>)}

\* lines 119-127 for one matching file
reader_add_file(f, acc) ==
    Bind(IF f.visit \notin DOMAIN acc.focal_planes
         THEN [acc EXCEPT !.tree.planes = Append(@, FocalPlane_init(f.visit)),
                          !.focal_planes = DictSet(@, f.visit, Len(acc.tree.planes) + 1)]
         ELSE acc,
         LAMBDA a1 :
            Bind(FocalPlane_add_sensor(a1.tree, a1.focal_planes[f.visit],
                                       Sensor_init(f.dir, f.sensor, f.raft, f.visit, 0)),
                 LAMBDA r :
                    IF ~r.res.ok THEN [a1 EXCEPT !.res = r.res]
                    ELSE [a1 EXCEPT !.tree = r.tree,
                                    !.valid_keys = @ \cup reader_keys(f.visit, f.raft, f.sensor)]))

\* lines 106-127: for dirpath, _, filenames in os.walk(root_dir)
RECURSIVE reader_scan(_, _, _, _)
reader_scan(walk, visits, dirpath_contain, acc) ==
    IF walk = <<>> \/ ~acc.res.ok THEN acc
    ELSE Bind(IF \/ (dirpath_contain # "" /\ ~str_contains(Head(walk).dir, dirpath_contain))
                 \/ ~FILENAME_PATTERN(Head(walk))
                 \/ (~visits.is_none /\ Head(walk).visit \notin visits.v)
              THEN acc
              ELSE reader_add_file(Head(walk), acc),
              LAMBDA a1 : reader_scan(Tail(walk), visits, dirpath_contain, a1))

\* EImageReader._subclass_init
EImageReader_init(walk, visits, default_rebinning, dirpath_contain) ==
    IF ~visits.is_none /\ visits.v = {}
    THEN [tree |-> NoTree, focal_planes |-> <<>>, valid_keys |-> {},
          default_rebinning |-> 0, res |-> Raise("ValueError")]
    ELSE reader_scan(walk, visits, dirpath_contain,
                     [tree |-> NoTree, focal_planes |-> <<>>, valid_keys |-> {},
                      default_rebinning |-> IF default_rebinning = 0 THEN 1
                                            ELSE default_rebinning,
                      res |-> Return])

\* what a lookup returns: a FocalPlane or Raft by its place in the tree, or a Sensor
Node(kind, at) == [kind |-> kind, at |-> at]

\* EImageReader.__getitem__
EImageReader_getitem(rd, tr, key) ==
    IF key \notin rd.valid_keys THEN [res |-> Raise("KeyError"), node |-> Node("", 0)]
    ELSE LET keys == str_split(key, "-")
         IN IF ~DictHas(rd.focal_planes, keys[1])
            THEN [res |-> Raise("KeyError"), node |-> Node("", 0)]
            ELSE LET fp == DictGet(rd.focal_planes, keys[1])
                 IN IF Len(keys) = 1 THEN [res |-> Return, node |-> Node("FocalPlane", fp)]
                    ELSE IF ~DictHas(tr.planes[fp].rafts, keys[2])
                    THEN [res |-> Raise("KeyError"), node |-> Node("", 0)]
                    ELSE LET r == DictGet(tr.planes[fp].rafts, keys[2])
                         IN IF Len(keys) = 2 THEN [res |-> Return, node |-> Node("Raft", r)]
                            ELSE IF ~DictHas(tr.rafts[r].sensors, keys[3])
                            THEN [res |-> Raise("KeyError"), node |-> Node("", 0)]
                            ELSE [res |-> Return,
                                  node |-> Node("Sensor", DictGet(tr.rafts[r].sensors, keys[3]))]

\* the rebinning argument of get_data: None, or a factor
RebinNone == [is_none |-> TRUE, v |-> 0]
Rebin(v) == [is_none |-> FALSE, v |-> v]

\* Sensor.get_data: the factor used and whether rescale() ran; 1 / 0 raises
Sensor_get_data(self, rebinning) ==
    LET r == IF rebinning.is_none THEN self.default_rebinning ELSE rebinning.v
    IN IF r = 0
       THEN [res |-> Raise("ZeroDivisionError"), factor |-> r, rescaled |-> FALSE]
       ELSE [res |-> Return, factor |-> r, rescaled |-> r # 1]

\* the keys asked of a reader
LookupKeys ==
    {<<v>> : v \in Visits} \cup
    {str_join("-", <<v, r>>) : v \in Visits, r \in RaftNames} \cup
    {str_join("-", <<v, r, n>>) : v \in Visits, r \in RaftNames, n \in {"S00", "S11"}}

\* a call on the reader: its arguments and what came back
ReaderCall(op, res, info) == [Call(op, 0, "", res, FALSE) EXCEPT !.res.cols = {info}]

\* EImageReader(root_dir, visits, default_rebinning, dirpath_contain)
ReaderConstruct(visits, default_rebinning, dirpath_contain) ==
    /\ reader.state = "none"
    /\ LET a == EImageReader_init(reader.root, visits, default_rebinning, dirpath_contain)
       IN /\ tree' = IF a.res.ok THEN a.tree ELSE tree
          /\ reader' = IF a.res.ok
                       THEN [reader EXCEPT !.state = "built",
                                           !.default_rebinning = a.default_rebinning,
                                           !.focal_planes = a.focal_planes,
                                           !.valid_keys = a.valid_keys]
                       ELSE [reader EXCEPT !.state = "failed"]
          /\ ret' = ReaderCall("reader", a.res,
                               [visits |-> visits, default_rebinning |-> default_rebinning,
                                dirpath_contain |-> dirpath_contain])
    /\ UNCHANGED <<disk, handles, file_handles, cat_schema, use_cache, datasets, ctor, iter>>

\* reader[key]
ReaderLookup(key) ==
    /\ reader.state = "built"
    /\ LET a == EImageReader_getitem(reader, tree, key)
       IN ret' = ReaderCall("getitem", a.res, [key |-> key, node |-> a.node])
    /\ UNCHANGED <<disk, handles, file_handles, cat_schema, use_cache, datasets, ctor, iter,
                   tree, reader>>

\* reader[key].get_data(rebinning), key the key of a Sensor
ReaderGetData(key, rebinning) ==
    /\ reader.state = "built"
    /\ LET a == EImageReader_getitem(reader, tree, key)
       IN /\ a.res.ok /\ a.node.kind = "Sensor"
          /\ LET d == Sensor_get_data(a.node.at, rebinning)
             IN ret' = ReaderCall("get_data", d.res,
                                  [key |-> key, sensor |-> a.node.at, rebinning |-> rebinning,
                                   factor |-> d.factor, rescaled |-> d.rescaled])
    /\ UNCHANGED <<disk, handles, file_handles, cat_schema, use_cache, datasets, ctor, iter,
                   tree, reader>>

InitReader ==
    /\ disk = [f \in Files |-> NoFile]
    /\ handles = <<>>
    /\ file_handles = NoFileHandles
    /\ cat_schema = SchemaNone
    /\ use_cache = TRUE
    /\ datasets = <<>>
    /\ ctor = "none"
    /\ iter = NoIter
    /\ ret = NoCall
    /\ tree = NoTree
    /\ reader \in {[NoReader EXCEPT !.root = w] : w \in Walks}

NextReader ==
    \/ \E visits \in {VisitsNone, VisitsSet({}), VisitsSet({"1"})},
          default_rebinning \in {0, 1, 2}, dirpath_contain \in {"", "a"} :
          ReaderConstruct(visits, default_rebinning, dirpath_contain)
    \/ \E key \in LookupKeys : ReaderLookup(key)
    \/ \E key \in LookupKeys, rebinning \in {RebinNone, Rebin(0), Rebin(1), Rebin(2)} :
          ReaderGetData(key, rebinning)

SpecReader == InitReader /\ [][NextReader]_vars

-----------------------------------------------------------------------------
(* Claims about one partition accessor.                                    *)

\* the element a fill array of this default holds
FillOf(default) ==
    IF default.nan THEN Elt(TRUE, 0, <<>>)
    ELSE IF default.ty = "str" THEN Elt(FALSE, 0, default.s)
    ELSE Elt(FALSE, default.n, <<>>)

DtypeStrOf(dtype) ==
    CASE dtype = "float64" -> "<f8" [] dtype \in {"int", "int64"} -> "<i8"
      [] dtype = "bool" -> "|b1" [] dtype = "str" -> "<U"

\* the last call was a get(col) that returned, col declared in the accessor's
\* schema and not stored in its partition
GotAbsentDeclared ==
    /\ ret.op = "get" /\ ret.res.ok
    /\ ret.col \in DOMAIN datasets[ret.arg].schema
    /\ ret.col \notin storer(datasets[ret.arg]).cols

\* C1: get(name) of a column declared in the schema and not stored in the
\* partition returns an array of the partition's row count, of the schema
\* dtype, every element the schema default, whatever calls came before.
C1_DefaultFill ==
    GotAbsentDeclared =>
        LET e == datasets[ret.arg].schema[ret.col]
            arr == ret.res.arr
        IN /\ Len(arr.data) = storer(datasets[ret.arg]).nrows
           /\ arr.dt = DtypeStrOf(e.dtype)
           /\ \A i \in 1..Len(arr.data) : arr.data[i] = FillOf(e.default)

\* C1 witness: an integer column declared and absent was returned, two rows of
\* -1, from an accessor whose memo already held another integer array
C1_Witness ==
    /\ GotAbsentDeclared /\ ret.col = "parent"
    /\ Len(ret.res.arr.data) >= 2 /\ ret.res.arr.data[2].n = -1
    /\ Cardinality({e \in datasets[ret.arg].constant_arrays : e.dt = "<i8"}) = 2

\* C4: an operation on an accessor whose file handle is already closed fails
\* and returns no data, whether or not its caches were populated before.
C4_StaleHandleFails ==
    (ret.op \in {"new", "get", "len", "columns", "contains"} /\ ret.stale) => ~ret.res.ok

\* equal as (dtype, value) pairs: a NaN default equals a NaN default
SamePair(dt1, v1, dt2, v2) ==
    /\ dt1 = dt2
    /\ IF v1.nan \/ v2.nan THEN v1.nan /\ v2.nan
       ELSE IF v1.ty = "str" \/ v2.ty = "str" THEN v1.ty = v2.ty /\ v1.s = v2.s
       ELSE v1.n = v2.n

\* the (dtype, default) a column name resolves to
PairOf(self, c) ==
    LET e == IF c \in DOMAIN self.schema THEN self.schema[c] ELSE NoSchemaEntry
    IN [dt |-> DtypeStrOf(IF e.has_dtype THEN e.dtype ELSE "float64"),
        value |-> IF e.has_default THEN e.default ELSE np_nan]

\* C8: between two clear_cache() calls, a get() of an absent column returns the
\* array an earlier get() made for an equal (dtype, default) pair, two columns
\* defaulting to float64 NaN included, and that array is not writable.
C8_SharedByPair ==
    [][\A p \in 1..Len(datasets) :
          (/\ ret'.op = "get" /\ ret'.arg = p /\ ret'.res.ok
           /\ ret'.col \notin storer(datasets[p]).cols)
          => /\ ~ret'.res.arr.writable
             /\ \A e \in datasets[p].constant_arrays :
                    SamePair(e.dt, e.value, PairOf(datasets[p], ret'.col).dt,
                             PairOf(datasets[p], ret'.col).value)
                    => ret'.res.arr.id = e.arr.id]_vars

\* the tract and patch a storage key stands for
KeyTract(key) ==
    CASE key = Key_object_48_01 -> 48 [] key = Key_coadd_07_12 -> 7
      [] key = Key_object_2_00 -> 2 [] key = Key_coadd_1_01 -> 1
      [] key = Key_object_10_00 -> 10
KeyPatch(key) ==
    CASE key = Key_object_48_01 -> <<"0", ",", "1">> [] key = Key_coadd_07_12 -> <<"1", ",", "2">>
      [] key = Key_object_2_00 -> <<"0", ",", "0">> [] key = Key_coadd_1_01 -> <<"0", ",", "1">>
      [] key = Key_object_10_00 -> <<"0", ",", "0">>

\* the last call was a get('tract') or get('patch') that returned
GotIdentity == ret.op = "get" /\ ret.res.ok /\ ret.col \in {"tract", "patch"}

IdentityFill(self, col, arr) ==
    /\ Len(arr.data) = storer(self).nrows
    /\ \A i \in 1..Len(arr.data) :
          IF col = "tract"
          THEN arr.data[i] = Elt(FALSE, KeyTract(self.key), <<>>)
               /\ arr.data[i].n = tract_and_patch(self).tract
          ELSE arr.data[i] = Elt(FALSE, 0, KeyPatch(self.key))
               /\ arr.data[i].s = tract_and_patch(self).patch

\* C10 as stated: get('tract') and get('patch') return length() elements, each
\* the value parsed from the storage key, for every accessor.
C10_IdentityColumns ==
    GotIdentity => IdentityFill(datasets[ret.arg], ret.col, ret.res.arr)

\* C10 amended: the same, for an accessor whose partition stores no column of
\* that name.
C10_IdentityColumnsUnlessStored ==
    (GotIdentity /\ ret.col \notin storer(datasets[ret.arg]).cols)
        => IdentityFill(datasets[ret.arg], ret.col, ret.res.arr)

\* C10 witness: get('tract') returned two rows of 7, parsed from coadd_07_12
C10_Witness ==
    /\ GotIdentity /\ ret.col = "tract"
    /\ "tract" \notin storer(datasets[ret.arg]).cols
    /\ Len(ret.res.arr.data) >= 2 /\ ret.res.arr.data[1].n = 7

-----------------------------------------------------------------------------
(* Claims about the catalog.                                               *)

\* the keys GROUP_PATTERN accepts, among those the directories hold
GoodKeys ==
    {Key_object_48_01, Key_coadd_07_12, Key_object_2_00, Key_coadd_1_01, Key_object_10_00}

IdentityOfKey(key) == Identity(KeyTract(key), KeyPatch(key))

\* partition k passes the generator's filter
PassesFilter(k) ==
    iter.filt.is_none \/ IdentityOfKey(datasets[k].key) \in iter.filt.accept

\* the partitions among the first n that pass, in list order
PassingUpTo(n) == SelectSeq([k \in 1..n |-> k], PassesFilter)

\* C2: the generator yields exactly the partitions for which the filter is
\* absent or true of the partition's {tract, patch}, each once, in the order of
\* the partition list; run to its end it has yielded all of them.
C2_YieldsExactlyPassing ==
    /\ iter.pc = "start" => iter.out = <<>>
    /\ iter.pc = "yielded" =>
          /\ iter.out = PassingUpTo(iter.i)
          /\ iter.out # <<>> /\ iter.out[Len(iter.out)] = iter.i
    /\ iter.pc = "done" => iter.out = PassingUpTo(Len(datasets))
    /\ iter.pc = "closed" => \E n \in 0..Len(datasets) : iter.out = PassingUpTo(n)

\* C2 witness: run to the end under a filter on tract 2 patch 0,0, the first
\* and third of three partitions were yielded and the second skipped
C2_Witness ==
    /\ iter.pc = "done" /\ ~iter.filt.is_none
    /\ Len(datasets) = 3 /\ iter.out = <<1, 3>>

HoldsCache(self) ==
    self.cache.set \/ self.columns.set \/ self.len.set \/ self.constant_arrays # {}

\* C3 as stated: with use_cache disabled, after an iteration, run to the end or
\* stopped part-way, no yielded partition holds cached data.
C3_NoYieldedHoldsCache ==
    (~use_cache /\ iter.pc \in {"done", "closed"}) =>
        \A k \in 1..Len(iter.out) : ~HoldsCache(datasets[iter.out[k]])

\* C3 amended: with use_cache disabled, a yielded partition is cleared when the
\* generator is resumed after its yield: every partition yielded before the
\* last one holds no cached data, and the last one holds none once the
\* generator has run to its end.
C3_ClearedOnResume ==
    ~use_cache =>
        \A k \in 1..Len(iter.out) :
            (k < Len(iter.out) \/ iter.pc = "done") => ~HoldsCache(datasets[iter.out[k]])

\* C3 witness: no schema, so construction read every partition's columns; the
\* second yielded partition holds its cache and the first has been cleared
C3_Witness ==
    /\ ~use_cache /\ cat_schema.is_none
    /\ iter.pc = "yielded" /\ Len(iter.out) >= 2
    /\ datasets[iter.i].cache.set
    /\ ~HoldsCache(datasets[iter.out[1]])

\* every open handle the catalog made is the one its table holds for that path
OpenHandlesAreHeld ==
    \A h \in 1..Len(handles) : handles[h].is_open => file_handles[handles[h].path] = h

\* C5: the catalog holds at most one open handle per path, all of them in the
\* table; open(path) returns the handle held, opening nothing, while that
\* handle is open; after close_all() the table is empty and every handle closed.
C5_HandleTable ==
    [][/\ OpenHandlesAreHeld'
       /\ \A f \in Files :
             (/\ ret'.op = "open" /\ ret'.arg = f
              /\ file_handles[f] # 0 /\ handles[file_handles[f]].is_open)
             => /\ ret'.res.ok /\ ret'.res.n = file_handles[f]
                /\ handles' = handles /\ file_handles' = file_handles
       /\ ret'.op = "close_all" =>
             /\ file_handles' = NoFileHandles
             /\ \A h \in 1..Len(handles') : ~handles'[h].is_open]_vars

\* C5 witness: open(path) after the first handle of that path was closed: the
\* table holds a second, open handle and the first stays closed
C5_Witness ==
    /\ ret.op = "open" /\ ret.res.ok
    /\ \E h \in 1..Len(handles) :
          /\ handles[h].path = ret.arg /\ ~handles[h].is_open
          /\ file_handles[ret.arg] # h /\ handles[file_handles[ret.arg]].is_open

MatchingFiles == {1, 2, 4}

\* the groups of file f that become partitions
ExpectedOf(f) ==
    IF disk[f].exists /\ disk[f].readable
    THEN SelectSeq([g \in 1..Len(disk[f].groups) |-> <<f, g>>],
                   LAMBDA fg : disk[fg[1]].groups[fg[2]].key \in GoodKeys)
    ELSE <<>>

\* merged_tract_1, object_tract_10, object_tract_2: the matching names, sorted
ExpectedPartitions == ExpectedOf(2) \o ExpectedOf(4) \o ExpectedOf(1)

FoundPartitions == [k \in 1..Len(datasets) |-> <<datasets[k].file, datasets[k].group>>]

\* C6: construction fails whenever discovery finds no partition; a constructed
\* catalog has a non-empty partition list, and only such a catalog is operated.
C6_EmptyCatalogRejected ==
    /\ ctor \in {"done", "deleted"} => datasets # <<>>
    /\ (ctor # "new" /\ ExpectedPartitions = <<>>) => ctor \in {"failed", "discarded"}
    /\ (ret.op = "init" /\ ExpectedPartitions = <<>>) => ~ret.res.ok
    /\ ret.op \in {"open", "close", "close_all"} => datasets # <<>>

\* C6 witness: one matching file unreadable, the other readable with no
\* matching group: construction raised RuntimeError
C6_Witness ==
    /\ ctor = "failed" /\ ret.op = "init" /\ ret.res.err = "RuntimeError"
    /\ disk[2].exists /\ ~disk[2].readable
    /\ disk[1].exists /\ disk[1].readable /\ Len(disk[1].groups) = 1

\* a matching group of a layout TableWrapper does not support: construction
\* raises ValueError
UnsupportedGroup ==
    \E f \in MatchingFiles :
        /\ disk[f].exists /\ disk[f].readable
        /\ \E g \in 1..Len(disk[f].groups) :
              /\ disk[f].groups[g].key \in GoodKeys
              /\ disk[f].groups[g].format \notin {"table", "fixed"}

\* C7: an unreadable matching file is skipped whole and a group of another name
\* alone; the partition list is the matching groups of the readable matching
\* files in sorted file order, and discovery itself raises nothing.
C7_DiscoverySkips ==
    (ctor # "new" /\ ~UnsupportedGroup) =>
        /\ FoundPartitions = ExpectedPartitions
        /\ ctor \in {"failed", "discarded"} => ExpectedPartitions = <<>>

\* C7 witness: three matching files, merged_tract_1 unreadable; the list is the
\* group of object_tract_10 and then the one matching group of object_tract_2
C7_Witness ==
    /\ ctor = "done"
    /\ disk[2].exists /\ ~disk[2].readable
    /\ disk[4].exists /\ disk[4].readable /\ Len(disk[4].groups) = 1
    /\ disk[1].exists /\ disk[1].readable /\ Len(disk[1].groups) = 2
    /\ FoundPartitions = <<<<4, 1>>, <<1, 2>>>>

-----------------------------------------------------------------------------
(* Claims about the focal-plane tree.                                      *)

\* every stored Sensor and Raft agrees with its parent and with its key
TreeConsistent(tr) ==
    /\ \A r \in 1..Len(tr.rafts) : \A n \in DOMAIN tr.rafts[r].sensors :
          /\ tr.rafts[r].sensors[n].name = n
          /\ tr.rafts[r].sensors[n].raft = tr.rafts[r].name
          /\ tr.rafts[r].sensors[n].visit = tr.rafts[r].visit
    /\ \A fp \in 1..Len(tr.planes) : \A n \in DOMAIN tr.planes[fp].rafts :
          /\ tr.rafts[tr.planes[fp].rafts[n]].name = n
          /\ tr.rafts[tr.planes[fp].rafts[n]].visit = tr.planes[fp].visit

\* the Sensor or Raft the call about to return was given
Given == CHOOSE x \in ret'.res.cols : TRUE

-----------------------------------------------------------------------------
(* Claims about the image reader.                                          *)

\* what the call that just returned was given and gave back
Info == CHOOSE x \in ret.res.cols : TRUE

\* the Sensors the reader's tree holds
ReaderSensors ==
    {tree.rafts[tree.planes[reader.focal_planes[v]].rafts[r]].sensors[n] :
        <<v, r, n>> \in
            {t \in Visits \X RaftNames \X {"S00", "S11"} :
                /\ t[1] \in DOMAIN reader.focal_planes
                /\ t[2] \in DOMAIN tree.planes[reader.focal_planes[t[1]]].rafts
                /\ t[3] \in DOMAIN tree.rafts[tree.planes[reader.focal_planes[t[1]]].rafts[t[2]]].sensors}}

\* C11: every Sensor a reader configured with default_rebinning = r put into the
\* tree has default rebinning factor r; get_data() without an argument uses
\* factor r and downsamples iff r # 1, and an explicit argument is the factor
\* of that call only.
C11_SensorRebinning ==
    reader.state = "built" =>
        /\ \A s \in ReaderSensors : s.default_rebinning = reader.default_rebinning
        /\ (ret.op = "get_data" /\ ret.res.ok) =>
              /\ Info.factor = IF Info.rebinning.is_none THEN reader.default_rebinning
                               ELSE Info.rebinning.v
              /\ Info.rescaled <=> (Info.factor # 1)

\* the composite key of a node a lookup returned
KeyOfNode(node) ==
    CASE node.kind = "FocalPlane" -> <<tree.planes[node.at].visit>>
      [] node.kind = "Raft" -> <<tree.rafts[node.at].visit, "-", tree.rafts[node.at].name>>
      [] node.kind = "Sensor" -> <<node.at.visit, "-", node.at.raft, "-", node.at.name>>
      [] OTHER -> <<>>

\* the composite keys of the nodes the reader's tree holds
NodeKeys ==
    {<<v>> : v \in DOMAIN reader.focal_planes} \cup
    UNION {{<<v, "-", r>> : r \in DOMAIN tree.planes[reader.focal_planes[v]].rafts} :
              v \in DOMAIN reader.focal_planes} \cup
    {<<s.visit, "-", s.raft, "-", s.name>> : s \in ReaderSensors}

\* C13: after construction over any scanned files the valid-key set and the
\* tree agree: every valid key looks up to the FocalPlane, Raft or Sensor of
\* that key without a missing-node error, every node of the tree has its key
\* in the set, and the lookup of a key outside the set fails with KeyError.
C13_KeysAgreeWithTree ==
    reader.state = "built" =>
        /\ reader.valid_keys = NodeKeys
        /\ \A key \in reader.valid_keys :
              /\ EImageReader_getitem(reader, tree, key).res.ok
              /\ KeyOfNode(EImageReader_getitem(reader, tree, key).node) = key
        /\ ret.op = "getitem" =>
              /\ ret.res.ok <=> Info.key \in reader.valid_keys
              /\ ret.res.ok => KeyOfNode(Info.node) = Info.key
              /\ ~ret.res.ok => ret.res.err = "KeyError"

\* C13 witness: a reader was built over a/ and b/ holding the same visit, raft
\* and sensor, with no filter on visits or directories, and kept the first
C13_Witness ==
    /\ reader.state = "built" /\ ret.op = "reader"
    /\ Info.visits.is_none /\ Info.dirpath_contain = ""
    /\ \E i, j \in 1..Len(reader.root) :
          /\ i < j
          /\ reader.root[i].dir # reader.root[j].dir
          /\ FILENAME_PATTERN(reader.root[i]) /\ FILENAME_PATTERN(reader.root[j])
          /\ reader.root[i].visit = reader.root[j].visit
          /\ reader.root[i].raft = reader.root[j].raft
          /\ reader.root[i].sensor = reader.root[j].sensor
          /\ \E s \in ReaderSensors :
                /\ s.name = reader.root[i].sensor /\ s.raft = reader.root[i].raft
                /\ s.visit = reader.root[i].visit /\ s.path = reader.root[i].dir
    /\ <<"1", "-", "R01", "-", "S00">> \in reader.valid_keys

-----------------------------------------------------------------------------
(* clear_cache and what an accessor returns.                               *)

\* what a caller sees of a result: the outcome, the row count, the column set,
\* the membership answer, and the dtype and contents of the array
Observed(res) ==
    [ok |-> res.ok, err |-> res.err, n |-> res.n, b |-> res.b, cols |-> res.cols,
     dt |-> res.arr.dt, data |-> res.arr.data, writable |-> res.arr.writable]

\* the accessor as its constructor made it
AsConstructed(self) ==
    ObjectTableWrapper_init(handles, self.fh, self.file, self.group, self.key, cat_schema).obj

\* C12: while the backing handle is open clear_cache() changes nothing a caller
\* can see: it puts the accessor back as its constructor made it, and columns,
\* length, contains and get return on the accessor as it stands, whatever it
\* has cached, what they return right after a clear_cache().
C12_ClearCacheTransparent ==
    \A p \in 1..Len(datasets) :
        (ctor = "wrapped" /\ ~HandleClosed(p)) =>
            /\ TW_clear_cache(datasets[p]) = AsConstructed(datasets[p])
            /\ Observed(TW_columns(datasets[p], handles).res)
                   = Observed(TW_columns(TW_clear_cache(datasets[p]), handles).res)
            /\ Observed(TW_len(datasets[p], handles).res)
                   = Observed(TW_len(TW_clear_cache(datasets[p]), handles).res)
            /\ \A col \in ReqCols :
                  /\ Observed(TW_contains(datasets[p], handles, col).res)
                         = Observed(TW_contains(TW_clear_cache(datasets[p]), handles, col).res)
                  /\ Observed(TW_getitem(datasets[p], handles, col, LiveIds(datasets[p])).res)
                         = Observed(TW_getitem(TW_clear_cache(datasets[p]), handles, col,
                                               LiveIds(TW_clear_cache(datasets[p]))).res)

\* C12 witness: an accessor on an open handle that holds the data, the columns,
\* the length and a default-fill array has just served a get of some rows
C12_Witness ==
    \E p \in 1..Len(datasets) :
        /\ ctor = "wrapped" /\ ~HandleClosed(p)
        /\ datasets[p].cache.set /\ datasets[p].columns.set /\ datasets[p].len.set
        /\ datasets[p].constant_arrays # {}
        /\ ret.op = "get" /\ ret.res.ok /\ Len(ret.res.arr.data) > 0

====
